---- MODULE Spec2Model ----
(***************************************************************************)
(* Furp - Framework for Urwid Plugins (furp.py, plugin.py and the two     *)
(* demonstration plugins).  The model covers the shell's plugin registry, *)
(* the single active-plugin slot, the status bar with its temporary       *)
(* overlay, the clock tick and the asyncio timer heap that drives both.   *)
(* Time is counted in whole seconds of the loop's monotonic clock.        *)
(***************************************************************************)
EXTENDS Integers, Sequences, FiniteSets, TLC

VARIABLES
    pc,                           \* "new" -> "widgets" -> "running" -> "exited"
    now,                          \* aloop.time()
    scheduled,                    \* the loop's timer heap: a set of handles
    status_text,                  \* Furp.status_text (the visible status)
    status_text_persistent,       \* Furp.status_text_persistent
    status_text_callback_handle,  \* Furp.status_text_callback_handle (0 is None)
    dt_text,                      \* Furp.dt_text: the time string it shows
    cfg_dt_format,                \* Furp.CFG_DT_FORMAT
    fs,                           \* the plugin directories on disk
    sys_path,                     \* sys.path entries added by the shell
    plugins,                      \* Furp._plugins
    active_plugin,                \* Furp.active_plugin
    body,                         \* Furp.body_filler.original_widget
    new_instance_calls,           \* per name: factory calls that returned
    cache_hits,                   \* names activated again from the cached instance
    activated,                    \* names activate_plugin has put into the slot
    pdata_closed,                 \* plugins whose pdata shelf was synced/closed
    exc,                          \* exception that left a handler into the loop
    last_temporary                \* the latest set_status_temporary call

vars == <<pc, now, scheduled, status_text, status_text_persistent,
          status_text_callback_handle, dt_text, cfg_dt_format, fs, sys_path,
          plugins, active_plugin, body, new_instance_calls, cache_hits, activated,
          pdata_closed, exc, last_temporary>>

(***************************************************************************)
(* Bounds of the model.                                                    *)
(***************************************************************************)
MaxBoot == 5
MaxRunBoot == 0
MaxTime == 7
MaxTimers == 3
MaxRate == 7
MaxClockTime == 11

(***************************************************************************)
(* Program constants.                                                      *)
(***************************************************************************)
CFG_DT_UPDT_RATE == 5
CFG_STATUS_TEMPORARY_DURATION == 5
MENU_BUTTON_DURATION == 3

None == 0
Names == {"HelloWorld", "HelloName"}
Labels == Names \cup {"Nope"}
PdataClasses == {"HelloName"}
SearchPaths == <<"appdata", "cwd">>
PathSet == {SearchPaths[i] : i \in 1..Len(SearchPaths)}
MenuKeys == {"f2", "f3", "f4", "f5", "f6", "f7", "f8"}
OtherKeys == {"x"}

NoInstance == [cls |-> "None", origin |-> "None"]
Placeholder == [main_widget_of |-> NoInstance]

(***************************************************************************)
(* The asyncio timer heap.  A handle is [id, when, cb, arg, cancelled];    *)
(* call_at adds one, Handle.cancel marks it, the loop pops the due ones in *)
(* order of `when` and calls those that are not cancelled.                 *)
(***************************************************************************)
UPDATE_DT == "_update_dt"
EXPIRATION == "_on_status_temporary_expiration"

NewId(heap) ==
    CHOOSE i \in 1..(Cardinality(heap) + 1) : \A h \in heap : h.id # i

call_at(heap, when, cb, arg) ==
    heap \cup {[id |-> NewId(heap), when |-> when, cb |-> cb, arg |-> arg,
                cancelled |-> FALSE]}

\* nothing refers to a handle once it is cancelled: it keeps no id
cancel(heap, id) ==
    {IF h.id = id THEN [h EXCEPT !.cancelled = TRUE, !.id = 0] ELSE h : h \in heap}

Due(heap, t) == {h \in heap : h.when <= t}

\* the handles the loop may run next: the earliest due ones
Ready(heap, t) == {h \in Due(heap, t) : \A g \in Due(heap, t) : h.when <= g.when}

\* a loop that calls a popped handle's callback without looking at the flag
Dispatches_unchecked(h) == TRUE

\* whether the loop calls a popped handle's callback
Dispatches(h) == ~h.cancelled

(***************************************************************************)
(* Status text.                                                            *)
(***************************************************************************)
\* the visible text after set_status_persistent(text)
persistent_visible(text, visible, handle) == text

\* set_status_temporary without the cancellation of the outstanding timer
cancel_outstanding_skipped(heap, handle) == heap

\* the heap after set_status_temporary's cancellation of the outstanding timer
cancel_outstanding(heap, handle) ==
    IF handle # None THEN cancel(heap, handle) ELSE heap

expiry_time(t, duration) == t + duration

\* the heap after set_status_temporary(text, duration) at loop time t
arm_expiry(heap, handle, t, duration) ==
    call_at(cancel_outstanding(heap, handle), expiry_time(t, duration),
            EXPIRATION, 0)

\* the handle set_status_temporary stores
armed_handle(heap, handle) == NewId(cancel_outstanding(heap, handle))

\* an expiry callback that leaves the stored handle in place
expired_handle_kept(handle) == handle

\* the stored handle after the expiry callback
expired_handle(handle) == None

\* an expiry callback that leaves the temporary text on screen
expired_visible_unchanged(persistent, visible) == visible

\* the visible text after the expiry callback
expired_visible(persistent, visible) == persistent

(***************************************************************************)
(* Clock.                                                                  *)
(***************************************************************************)
\* the first tick taken at the start time itself when that is a multiple
first_clock_time_inclusive(t, rate) ==
    IF t % rate = 0 THEN t ELSE (t - (t % rate)) + rate

first_clock_time(t, rate) == (t - (t % rate)) + rate

\* the next tick counted from the time the callback actually ran
next_clock_time_from_dispatch(scheduled_for, dispatched_at, rate) ==
    dispatched_at + rate

\* the time _update_dt re-arms itself for
next_clock_time(scheduled_for, dispatched_at, rate) == scheduled_for + rate

APP_DATA_PATH == "~/.Furp"

DFLT_DT_FORMAT == "%Y/%m/%d %H:%M"
INVALID_DT_FORMAT == "%"

\* the formats time.strftime raises on
RaisingFormats == {INVALID_DT_FORMAT}
Formats == {DFLT_DT_FORMAT, INVALID_DT_FORMAT}

NoText == [at |-> 0, fmt |-> "None"]
Raised == [at |-> 0, fmt |-> "raised"]

\* time.strftime(fmt) at loop time t
strftime(fmt, t) == IF fmt \in RaisingFormats THEN Raised ELSE [at |-> t, fmt |-> fmt]

\* the time string taken without the fallback to the default format
get_time_as_str_unguarded(fmt, t) == strftime(fmt, t)

\* _get_time_as_str with CFG_DT_FORMAT = fmt
get_time_as_str(fmt, t) ==
    IF strftime(fmt, t) = Raised THEN strftime(DFLT_DT_FORMAT, t)
                                 ELSE strftime(fmt, t)

(***************************************************************************)
(* Plugin discovery (_init_plugins).  fs[p] is a search path: whether it   *)
(* is a directory, and for each candidate name whether it holds nothing    *)
(* ("none"), a sub-directory without the entry module ("dir") or a         *)
(* sub-directory with <name>.py in it ("plugin").                          *)
(***************************************************************************)
ItemKinds == {"none", "dir", "plugin"}
NameOrder == <<"HelloName", "HelloWorld">>
NoPath == [dir |-> "None", item |-> "None"]

fullpath(p, n) == [dir |-> p, item |-> n]

SeqRange(q) == {q[i] : i \in 1..Len(q)}

\* os.path.isdir(fullpath) and path_item + ".py" in os.listdir(fullpath)
is_candidate(f, p, n) == f[p].isdir /\ f[p].items[n] = "plugin"

\* sys.path after the guarded append of one plugin directory
path_appended(sp, entry) == IF entry \notin SeqRange(sp) THEN Append(sp, entry) ELSE sp

\* registration that keeps an entry already present (the earlier path wins)
registered_first(reg, p, n) ==
    reg @@ (n :> [name |-> n, path |-> fullpath(p, n), instance |-> NoInstance])

\* the registry after one candidate is registered: the later entry replaces
registered(reg, p, n) ==
    (n :> [name |-> n, path |-> fullpath(p, n), instance |-> NoInstance]) @@ reg

RECURSIVE scan(_, _, _, _)
\* the [plugins, sys_path] reached from st by scanning search path k from item j on
scan(f, st, k, j) ==
    IF k > Len(SearchPaths) THEN st
    ELSE IF j > Len(NameOrder) THEN scan(f, st, k + 1, 1)
    ELSE LET p == SearchPaths[k]
             n == NameOrder[j]
         IN IF is_candidate(f, p, n)
            THEN scan(f, [plugins |-> registered(st.plugins, p, n),
                          sys_path |-> path_appended(st.sys_path, fullpath(p, n))],
                      k, j + 1)
            ELSE scan(f, st, k, j + 1)

EmptyRegistry == [n \in {} |-> NoInstance]

discover(f, sp) == scan(f, [plugins |-> EmptyRegistry, sys_path |-> sp], 1, 1)

(***************************************************************************)
(* Plugin activation helpers.                                              *)
(***************************************************************************)
\* importlib.import_module(name): the first sys.path entry holding <name>.py
resolve(f, sp, n) ==
    LET hits == {i \in 1..Len(sp) : sp[i].item = n /\ is_candidate(f, sp[i].dir, n)}
    IN IF hits = {} THEN NoPath
       ELSE sp[CHOOSE i \in hits : \A j \in hits : i <= j]

\* activation without the test of the cached instance
needs_construct_always(info) == TRUE

\* plug_info['instance'] is None
needs_construct(info) == info.instance = NoInstance

\* the object new_instance returns
new_instance(n, origin) == [cls |-> n, origin |-> origin]

\* storing an instance while dropping the instances of the other entries
instance_stored_exclusive(reg, label, inst) ==
    [n \in DOMAIN reg |->
        [reg[n] EXCEPT !.instance = IF n = label THEN inst ELSE NoInstance]]

\* the registry after plug_info['instance'] is assigned
instance_stored(reg, label, inst) == [reg EXCEPT ![label].instance = inst]

\* an activation that first releases the occupied slot and leaves it empty
active_after_released(previous, inst) ==
    IF previous = NoInstance THEN inst ELSE NoInstance

\* self.active_plugin after the assignment of the resolved instance
active_after(previous, inst) == inst

\* get_main_widget() of a plugin that implements it
get_main_widget(inst) == [main_widget_of |-> inst]

activated_text(n) == "Activated " \o n

emit_text(key) == "emit button " \o key

\* a menu button message shown for the default duration
menu_button_duration_default(key) == CFG_STATUS_TEMPORARY_DURATION

\* the duration _on_menu_button_click passes to set_status_temporary
menu_button_duration(key) == MENU_BUTTON_DURATION

(***************************************************************************)
(* Inputs the model draws from.                                            *)
(***************************************************************************)
PersistentTexts == {"ready", "busy"}

Dir(d, hn, hw) == [isdir |-> d, items |-> [n \in Names |->
                       IF n = "HelloName" THEN hn ELSE hw]]

\* every layout of the two search paths
AllFs == [PathSet -> {Dir(d, hn, hw) : d \in BOOLEAN, hn \in ItemKinds, hw \in ItemKinds}]

\* the repository's layout, and the layouts where a name is under both paths
RepoFs == [p \in PathSet |-> IF p = "appdata" THEN Dir(TRUE, "none", "plugin")
                                               ELSE Dir(TRUE, "plugin", "none")]
ShadowFs == [p \in PathSet |-> Dir(TRUE, "plugin", "plugin")]
RunFs == {RepoFs}

(***************************************************************************)
(* Furp.__init__                                                           *)
(***************************************************************************)
InitWith(fsset, boot, formats) ==
    /\ pc = "new"
    /\ now \in 0..boot
    /\ fs \in fsset
    /\ scheduled = {}
    /\ status_text = "Status"
    /\ status_text_persistent = ""
    /\ status_text_callback_handle = None
    /\ dt_text = NoText
    /\ cfg_dt_format \in formats
    /\ sys_path = <<>>
    /\ plugins = EmptyRegistry
    /\ active_plugin = NoInstance
    /\ body = Placeholder
    /\ new_instance_calls = [n \in Names |-> 0]
    /\ cache_hits = {}
    /\ activated = {}
    /\ pdata_closed = {}
    /\ exc = "none"
    /\ last_temporary = [text |-> "", at |-> 0, duration |-> 0]

Init == InitWith(RunFs, MaxRunBoot, {DFLT_DT_FORMAT})

InitBoot == InitWith(AllFs, MaxBoot, {DFLT_DT_FORMAT})

\* an exception that leaves a handler reaches the urwid main loop, which
\* stops the asyncio loop and re-raises it from run(); ExitMainLoop stops the
\* loop the same way without an error
raise_into_loop(e) ==
    /\ exc' = e
    /\ pc' = "exited"

\* set_status_temporary(text, duration), as a part of the calling handler
set_status_temporary(text, duration) ==
    /\ status_text' = text
    /\ scheduled' = arm_expiry(scheduled, status_text_callback_handle, now, duration)
    /\ status_text_callback_handle' = armed_handle(scheduled, status_text_callback_handle)
    /\ last_temporary' = [text |-> text, at |-> now, duration |-> duration]

init_widgets ==
    /\ pc = "new"
    /\ body' = Placeholder
    /\ status_text_persistent' = ""
    /\ status_text' = APP_DATA_PATH
    /\ status_text_callback_handle' = armed_handle(scheduled, None)
    /\ last_temporary' = [text |-> APP_DATA_PATH, at |-> now,
                           duration |-> CFG_STATUS_TEMPORARY_DURATION]
    /\ LET armed == arm_expiry(scheduled, None, now, CFG_STATUS_TEMPORARY_DURATION)
           next == first_clock_time(now, CFG_DT_UPDT_RATE)
           s == get_time_as_str(cfg_dt_format, now)
       IN IF s = Raised
          THEN /\ raise_into_loop("ValueError")
               /\ scheduled' = armed
               /\ UNCHANGED dt_text
          ELSE /\ pc' = "widgets"
               /\ dt_text' = s
               /\ scheduled' = call_at(armed, next, UPDATE_DT, next)
               /\ UNCHANGED exc
    /\ UNCHANGED <<now, cfg_dt_format, fs, sys_path, plugins, active_plugin,
                   new_instance_calls, cache_hits, activated, pdata_closed>>

init_plugins ==
    /\ pc = "widgets"
    /\ pc' = "running"
    /\ LET d == discover(fs, sys_path)
       IN /\ plugins' = d.plugins
          /\ sys_path' = d.sys_path
    /\ UNCHANGED <<now, scheduled, status_text, status_text_persistent,
                   status_text_callback_handle, dt_text, cfg_dt_format, fs, active_plugin,
                   body, new_instance_calls, cache_hits, activated,
                   pdata_closed, exc, last_temporary>>

(***************************************************************************)
(* The event loop: time passes only when no timer is due; a due handle is  *)
(* popped and, unless cancelled, its callback runs.                        *)
(***************************************************************************)
tick ==
    /\ pc = "running"
    /\ now < MaxTime
    /\ Due(scheduled, now) = {}
    /\ now' = now + 1
    /\ UNCHANGED <<pc, scheduled, status_text, status_text_persistent,
                   status_text_callback_handle, dt_text, cfg_dt_format, fs, sys_path,
                   plugins, active_plugin, body, new_instance_calls,
                   cache_hits, activated, pdata_closed, exc, last_temporary>>

\* time passing in a loop iteration that has not yet come to its due timers
pass_time ==
    /\ pc = "running"
    /\ now < MaxClockTime
    /\ now' = now + 1
    /\ UNCHANGED <<pc, scheduled, status_text, status_text_persistent,
                   status_text_callback_handle, dt_text, cfg_dt_format, fs,
                   sys_path, plugins, active_plugin, body,
                   new_instance_calls, cache_hits, activated, pdata_closed,
                   exc, last_temporary>>

drop_cancelled ==
    /\ pc = "running"
    /\ \E h \in Ready(scheduled, now) :
          /\ ~Dispatches(h)
          /\ scheduled' = scheduled \ {h}
    /\ UNCHANGED <<pc, now, status_text, status_text_persistent,
                   status_text_callback_handle, dt_text, cfg_dt_format, fs, sys_path,
                   plugins, active_plugin, body, new_instance_calls,
                   cache_hits, activated, pdata_closed, exc, last_temporary>>

update_dt ==
    /\ pc = "running"
    /\ \E h \in Ready(scheduled, now) :
          /\ Dispatches(h)
          /\ h.cb = UPDATE_DT
          /\ LET next == next_clock_time(h.arg, now, CFG_DT_UPDT_RATE)
             IN scheduled' = call_at(scheduled \ {h}, next, UPDATE_DT, next)
    /\ LET s == get_time_as_str(cfg_dt_format, now)
       IN IF s = Raised
          THEN raise_into_loop("ValueError") /\ UNCHANGED dt_text
          ELSE dt_text' = s /\ UNCHANGED <<pc, exc>>
    /\ UNCHANGED <<now, status_text, status_text_persistent,
                   status_text_callback_handle, cfg_dt_format, fs, sys_path,
                   plugins, active_plugin, body, new_instance_calls,
                   cache_hits, activated, pdata_closed, last_temporary>>

on_status_temporary_expiration ==
    /\ pc = "running"
    /\ \E h \in Ready(scheduled, now) :
          /\ Dispatches(h)
          /\ h.cb = EXPIRATION
          /\ scheduled' = scheduled \ {h}
    /\ status_text' = expired_visible(status_text_persistent, status_text)
    /\ status_text_callback_handle' = expired_handle(status_text_callback_handle)
    /\ UNCHANGED <<pc, now, status_text_persistent, dt_text, cfg_dt_format, fs, sys_path,
                   plugins, active_plugin, body, new_instance_calls,
                   cache_hits, activated, pdata_closed, exc, last_temporary>>

(***************************************************************************)
(* Handlers.                                                              *)
(***************************************************************************)
\* a plugin's call of set_status_persistent through its framework handle
set_status_persistent(text) ==
    /\ pc = "running"
    /\ active_plugin # NoInstance
    /\ status_text_persistent' = text
    /\ status_text' = persistent_visible(text, status_text, status_text_callback_handle)
    /\ UNCHANGED <<pc, now, scheduled, status_text_callback_handle, dt_text,
                   cfg_dt_format, fs, sys_path, plugins, active_plugin, body,
                   new_instance_calls, cache_hits, activated, pdata_closed,
                   exc, last_temporary>>

\* F1 opens the selector pop-up, which holds no state of the shell
on_unhandled_input(input) ==
    /\ pc = "running"
    /\ IF input \in MenuKeys
       THEN /\ Cardinality(scheduled) < MaxTimers
            /\ set_status_temporary(emit_text(input), menu_button_duration(input))
       ELSE UNCHANGED <<scheduled, status_text, status_text_callback_handle,
                        last_temporary>>
    /\ UNCHANGED <<pc, now, status_text_persistent, dt_text, cfg_dt_format, fs, sys_path,
                   plugins, active_plugin, body, new_instance_calls,
                   cache_hits, activated, pdata_closed, exc>>

\* activate_plugin(button) with button.get_label() = label; imp, ctor and wid
\* say whether the import, new_instance and get_main_widget return normally
activate_plugin(label, imp, ctor, wid) ==
    /\ pc = "running"
    /\ UNCHANGED <<now, status_text_persistent, dt_text, cfg_dt_format, fs, sys_path,
                   pdata_closed>>
    /\ IF label \notin DOMAIN plugins
       THEN /\ raise_into_loop("KeyError")
            /\ UNCHANGED <<scheduled, status_text,
                           status_text_callback_handle, plugins,
                           active_plugin, body, new_instance_calls,
                           cache_hits, activated, last_temporary>>
       ELSE LET info == plugins[label]
                build == needs_construct(info)
                origin == resolve(fs, sys_path, info.name)
            IN IF build /\ (origin = NoPath \/ ~imp)
               THEN /\ raise_into_loop("ImportError")
                    /\ UNCHANGED <<scheduled, status_text,
                                   status_text_callback_handle, plugins,
                                   active_plugin, body, new_instance_calls,
                                   cache_hits, activated, last_temporary>>
               ELSE IF build /\ ~ctor
               THEN /\ raise_into_loop("ConstructorError")
                    /\ UNCHANGED <<scheduled, status_text,
                                   status_text_callback_handle, plugins,
                                   active_plugin, body, new_instance_calls,
                                   cache_hits, activated, last_temporary>>
               ELSE LET inst == IF build THEN new_instance(info.name, origin)
                                         ELSE info.instance
                    IN /\ plugins' = instance_stored(plugins, label, inst)
                       /\ new_instance_calls' =
                            IF build
                            THEN [new_instance_calls EXCEPT ![label] = @ + 1]
                            ELSE new_instance_calls
                       /\ cache_hits' =
                            IF build THEN cache_hits ELSE cache_hits \cup {label}
                       /\ active_plugin' = active_after(active_plugin, inst)
                       /\ activated' = activated \cup {label}
                       /\ IF ~wid
                          THEN /\ raise_into_loop("NotImplementedError")
                               /\ UNCHANGED <<scheduled, status_text,
                                              status_text_callback_handle,
                                              body, last_temporary>>
                          ELSE /\ body' = get_main_widget(inst)
                               /\ set_status_temporary(
                                       activated_text(info.name),
                                       CFG_STATUS_TEMPORARY_DURATION)
                               /\ UNCHANGED <<pc, exc>>

\* PluginSelectorPopup.buttonpress: a button exists for every registry entry
buttonpress(label, imp, ctor, wid) ==
    /\ label \in DOMAIN plugins
    /\ Cardinality(scheduled) < MaxTimers
    /\ activate_plugin(label, imp, ctor, wid)

\* activate_plugin called with a label the registry does not hold
activate_unregistered(label) ==
    /\ label \notin DOMAIN plugins
    /\ activate_plugin(label, TRUE, TRUE, TRUE)

\* the pop-up's Quit button
quit ==
    /\ pc = "running"
    /\ raise_into_loop("ExitMainLoop")
    /\ UNCHANGED <<now, scheduled, status_text, status_text_persistent,
                   status_text_callback_handle, dt_text, cfg_dt_format, fs, sys_path,
                   plugins, active_plugin, body, new_instance_calls,
                   cache_hits, activated, pdata_closed, last_temporary>>

\* PdataPlugin.__del__, when the interpreter finalizes the instance after run()
pdata_del(n) ==
    /\ pc = "exited"
    /\ n \in DOMAIN plugins
    /\ plugins[n].instance # NoInstance
    /\ plugins[n].instance.cls \in PdataClasses
    /\ n \notin pdata_closed
    /\ pdata_closed' = pdata_closed \cup {n}
    /\ UNCHANGED <<pc, now, scheduled, status_text, status_text_persistent,
                   status_text_callback_handle, dt_text, cfg_dt_format, fs, sys_path,
                   plugins, active_plugin, body, new_instance_calls,
                   cache_hits, activated, exc, last_temporary>>

Boot == init_widgets \/ init_plugins

Next ==
    \/ init_widgets
    \/ init_plugins
    \/ tick
    \/ drop_cancelled
    \/ update_dt
    \/ on_status_temporary_expiration
    \/ \E text \in PersistentTexts : set_status_persistent(text)
    \/ \E input \in {"f1"} \cup MenuKeys \cup OtherKeys : on_unhandled_input(input)
    \/ \E label \in Names, imp \in BOOLEAN, ctor \in BOOLEAN, wid \in BOOLEAN :
          buttonpress(label, imp, ctor, wid)
    \/ \E label \in Labels : activate_unregistered(label)
    \/ quit
    \/ \E n \in Names : pdata_del(n)

Spec == Init /\ [][Next]_vars

SpecBoot == InitBoot /\ [][Boot]_vars

\* the running program over a layout that holds both names under both paths
InitShadow == InitWith({ShadowFs}, MaxRunBoot, {DFLT_DT_FORMAT})

SpecShadow == InitShadow /\ [][Next]_vars

\* the running loop with late dispatch, under every configured time format
InitClock == InitWith(RunFs, MaxRunBoot, Formats)

NextClock ==
    \/ init_widgets
    \/ init_plugins
    \/ pass_time
    \/ drop_cancelled
    \/ update_dt
    \/ on_status_temporary_expiration
    \/ set_status_persistent("busy")
    \/ \E input \in {"f2"} \cup OtherKeys : on_unhandled_input(input)
    \/ buttonpress("HelloWorld", TRUE, TRUE, TRUE)

SpecClock == InitClock /\ [][NextClock]_vars

(***************************************************************************)
(* Properties.                                                             *)
(***************************************************************************)
ClockHandles == {h \in scheduled : h.cb = UPDATE_DT}
LiveExpiry == {h \in scheduled : h.cb = EXPIRATION /\ ~h.cancelled}
CancelledExpiry == {h \in scheduled : h.cb = EXPIRATION /\ h.cancelled}
Instance(n) == IF n \in DOMAIN plugins THEN plugins[n].instance ELSE NoInstance
PluginErrors == {"ImportError", "ConstructorError", "NotImplementedError"}
ActivationFailed == exc = "none" /\ exc' \in PluginErrors \cup {"KeyError"}

\* C1: an activate call that fails (unknown name, import failure, new_instance
\* raising, get_main_widget raising) leaves the active plugin and the displayed
\* body surface exactly as they were before the call.
C1_FailedActivationKeepsSlot ==
    [][ActivationFailed => active_plugin' = active_plugin /\ body' = body]_vars

\* C2: set_status_persistent called while a temporary message's expiry timer
\* is outstanding does not change the visible status text and does not touch
\* the timer.
C2_PersistentKeepsTemporaryVisible ==
    [][(status_text_callback_handle # None
          /\ \E text \in PersistentTexts : set_status_persistent(text))
        => status_text' = status_text /\ scheduled' = scheduled]_vars

\* C3: after set_status_temporary(text, d) at t1 and set_status_temporary(text2,
\* d2) at t2 < t1 + d, only text2 is the temporary text shown from t2 on, the
\* first timer no longer reverts the text at t1 + d, and the text reverts to
\* the persistent message exactly at t2 + d2: before that time the latest
\* call's timer is the one outstanding live timer, after it none is.
C3_Expires == last_temporary.at + last_temporary.duration
C3_TemporaryWindowRestarts ==
    pc # "new" =>
        /\ now < C3_Expires =>
              /\ status_text_callback_handle # None
              /\ status_text \in {last_temporary.text, status_text_persistent}
        /\ now > C3_Expires =>
              /\ status_text_callback_handle = None
              /\ status_text = status_text_persistent
        /\ status_text_callback_handle = None => status_text = status_text_persistent
        /\ \A h \in LiveExpiry :
              h.id = status_text_callback_handle /\ h.when = C3_Expires
        /\ status_text_callback_handle # None => LiveExpiry # {}

\* the first timer was cancelled by a second call, its time t1 + d has come,
\* and the second text is still showing with its own timer pending
C3_Witness ==
    /\ pc = "running"
    /\ \E c \in CancelledExpiry : c.when = now
    /\ status_text_callback_handle # None
    /\ status_text = last_temporary.text
    /\ last_temporary.at > 0
    /\ now < C3_Expires

\* the multiples of rate that are at or after t (strict: after t), up to t + rate
MultiplesFrom(t, rate, strict) ==
    {m \in 0..(t + rate) : m % rate = 0 /\ (IF strict THEN m > t ELSE m >= t)}
SmallestMultipleFrom(t, rate, strict) ==
    CHOOSE m \in MultiplesFrom(t, rate, strict) :
        \A k \in MultiplesFrom(t, rate, strict) : m <= k

C5_ConstructedAtMostOnce ==
    \A n \in Names :
        /\ new_instance_calls[n] <= 1
        /\ new_instance_calls[n] = 1 <=> Instance(n) # NoInstance
        /\ n \in cache_hits => new_instance_calls[n] = 1

\* HelloWorld was activated again from its cached instance with HelloName
\* constructed as well
C5_Witness ==
    /\ "HelloWorld" \in cache_hits
    /\ new_instance_calls["HelloName"] = 1
    /\ active_plugin = Instance("HelloWorld")
    /\ body = get_main_widget(Instance("HelloWorld"))

ActiveSet == {n \in DOMAIN plugins : Instance(n) # NoInstance /\ Instance(n) = active_plugin}

\* C6: in every reachable state at most one plugin is the active one (none
\* before the first activation), and an activation replaces the occupant in
\* one step: the slot never holds two plugins and is never emptied again.
C6_AtMostOneActive ==
    /\ [](/\ Cardinality(ActiveSet) <= 1
          /\ active_plugin # NoInstance => Cardinality(ActiveSet) = 1)
    /\ [][active_plugin # NoInstance => active_plugin' # NoInstance]_vars

\* HelloName took the slot over from HelloWorld, which keeps its instance
C6_Witness ==
    /\ pc = "running"
    /\ Instance("HelloWorld") # NoInstance
    /\ active_plugin = Instance("HelloName")
    /\ active_plugin # NoInstance
    /\ body = get_main_widget(active_plugin)

\* C7: activating a name absent from the registry is non-fatal and surfaced as
\* a status message: the loop keeps running, no exception leaves the handler,
\* and the registry, the active plugin and the displayed surface are unchanged.
C7_UnknownPluginIsNonFatal ==
    [][(\E label \in Labels : activate_unregistered(label))
        => /\ pc' = "running"
           /\ exc' = "none"
           /\ status_text_callback_handle' # None
           /\ plugins' = plugins
           /\ active_plugin' = active_plugin
           /\ body' = body]_vars

\* C8: no error raised during plugin activation (import failure, new_instance
\* raising, get_main_widget raising) leaves activate_plugin into the caller or
\* the event loop.
C8_NoPluginErrorEscapes == exc \notin PluginErrors

\* C9: when quit() has stopped the loop, every plugin with an instance has had
\* its persistent store flushed (synced or closed) before the loop exit.
C9_FlushBeforeExit ==
    (pc = "exited" /\ exc = "ExitMainLoop") =>
        \A n \in DOMAIN plugins :
            (Instance(n) # NoInstance /\ Instance(n).cls \in PdataClasses)
                => n \in pdata_closed

\* the search paths that hold a plugin directory for n, by position
FoundAt(n) == {k \in 1..Len(SearchPaths) : is_candidate(fs, SearchPaths[k], n)}
LastFoundAt(n) == CHOOSE k \in FoundAt(n) : \A j \in FoundAt(n) : j <= k

\* C10: after discovery the registry holds exactly the names found under some
\* search path, one entry each, and an entry's path is the plugin directory
\* under the last search path that holds the name.
C10_LastSearchPathWins ==
    pc = "running" =>
        /\ DOMAIN plugins = {n \in Names : FoundAt(n) # {}}
        /\ \A n \in DOMAIN plugins :
              /\ plugins[n].name = n
              /\ plugins[n].path = fullpath(SearchPaths[LastFoundAt(n)], n)

\* HelloName is under both search paths and registered from the later one,
\* HelloWorld only under the earlier one and registered from it
C10_Witness ==
    /\ pc = "running"
    /\ FoundAt("HelloName") = {1, 2}
    /\ plugins["HelloName"].path = fullpath("cwd", "HelloName")
    /\ FoundAt("HelloWorld") = {1}
    /\ plugins["HelloWorld"].path = fullpath("appdata", "HelloWorld")

\* C11: the callback of an expiry handle that set_status_temporary cancelled is
\* never invoked, whatever else is scheduled or fires in between, also when the
\* handle is cancelled in the scheduling tick in which it is due: a cancelled
\* handle leaves the heap with no effect on the status bar, and the expiry
\* callback only ever runs for the uncancelled handle the shell holds.
C11_CancelledNeverRuns ==
    [][/\ \A h \in scheduled \ scheduled' :
              h.cancelled =>
                  /\ status_text' = status_text
                  /\ status_text_callback_handle' = status_text_callback_handle
                  /\ status_text_persistent' = status_text_persistent
       /\ on_status_temporary_expiration =>
              \E h \in scheduled \ scheduled' :
                  /\ ~h.cancelled
                  /\ h.cb = EXPIRATION
                  /\ h.id = status_text_callback_handle]_vars

\* a handle cancelled at the very time it is due, by a call made at that time,
\* is still in the heap
C11_Witness ==
    /\ pc = "running"
    /\ \E c \in CancelledExpiry : c.when = now
    /\ last_temporary.at = now
    /\ status_text_callback_handle # None
    /\ status_text = last_temporary.text

C13_OneOutstandingExpiry ==
    /\ [](/\ Cardinality(LiveExpiry) <= 1
          /\ (status_text_callback_handle # None) <=> (LiveExpiry # {})
          /\ \A h \in LiveExpiry : h.id = status_text_callback_handle)
    /\ [][LiveExpiry' \ LiveExpiry # {} =>
              \A h \in LiveExpiry :
                  /\ h \notin scheduled'
                  /\ [h EXCEPT !.cancelled = TRUE, !.id = 0] \in scheduled']_vars

\* a temporary message was armed over an outstanding one: the earlier timer
\* sits cancelled in the heap next to the one live timer the handle names
C13_Witness ==
    /\ pc = "running"
    /\ CancelledExpiry # {}
    /\ Cardinality(LiveExpiry) = 1
    /\ \E c \in CancelledExpiry : \A h \in LiveExpiry : c.when < h.when
    /\ status_text_callback_handle # None

\* C14: discovery imports no module and constructs no plugin (every descriptor
\* it produces has no instance) and changes no shell state other than the
\* registry: not the module search locations, not the active plugin, not the
\* body, not the status bar and not its timers.
C14_DiscoveryChangesOnlyRegistry ==
    [][(pc = "widgets" /\ pc' = "running") =>
          /\ \A n \in DOMAIN plugins' : plugins'[n].instance = NoInstance
          /\ new_instance_calls' = new_instance_calls
          /\ sys_path' = sys_path
          /\ active_plugin' = active_plugin
          /\ body' = body
          /\ status_text' = status_text
          /\ status_text_persistent' = status_text_persistent
          /\ status_text_callback_handle' = status_text_callback_handle
          /\ scheduled' = scheduled]_vars

\* C15: F2..F8 only publish the temporary message "emit button <key>" for 3
\* seconds, replacing any temporary message in flight: after the step the one
\* live expiry timer is the new one, due 3 seconds from now, and the registry,
\* every plugin instance, the active plugin, the body and the persistent
\* status text are unchanged.  An input outside F1..F8 changes nothing.
C15_MenuKeyOnlyPublishesStatus ==
    [][/\ \A k \in MenuKeys :
              (last_temporary'.text = emit_text(k) /\ on_unhandled_input(k)) =>
                  /\ status_text' = "emit button " \o k
                  /\ \E h \in LiveExpiry' :
                        /\ LiveExpiry' = {h}
                        /\ h.when = now + MENU_BUTTON_DURATION
                        /\ h.id = status_text_callback_handle'
                  /\ \A g \in LiveExpiry :
                        [g EXCEPT !.cancelled = TRUE, !.id = 0] \in scheduled'
                  /\ ClockHandles' = ClockHandles
                  /\ UNCHANGED <<plugins, active_plugin, body,
                                 status_text_persistent, new_instance_calls,
                                 sys_path, dt_text, pc, exc, now>>
       /\ \A k \in OtherKeys :
              (pc' = pc /\ now' = now /\ on_unhandled_input(k)) => UNCHANGED vars]_vars

\* with HelloWorld active and its surface shown, F2 replaced a temporary
\* message that was still in flight
C15_Witness ==
    /\ pc = "running"
    /\ active_plugin = Instance("HelloWorld")
    /\ active_plugin # NoInstance
    /\ body = get_main_widget(active_plugin)
    /\ status_text = "emit button f2"
    /\ last_temporary = [text |-> "emit button f2", at |-> now,
                         duration |-> MENU_BUTTON_DURATION]
    /\ \E c \in CancelledExpiry : c.when > now
    /\ \E h \in LiveExpiry : h.when = now + MENU_BUTTON_DURATION

\* C16: when a plugin name exists under both search paths, activation
\* constructs the plugin from the entry module at the registry descriptor's
\* path: the module resolved by name always comes from the location the
\* descriptor records.
C16_ImportedFromDescriptorPath ==
    \A n \in DOMAIN plugins :
        Instance(n) # NoInstance => Instance(n).origin = plugins[n].path

\* C17: when a temporary message's expiry timer fires, the visible status text
\* becomes the persistent text current at that moment, whatever the plugin
\* set while the temporary message was showing, the persistent text itself
\* is kept, and status_text_callback_handle is cleared.
C17_ExpiryShowsCurrentPersistent ==
    [][on_status_temporary_expiration =>
          /\ status_text' = status_text_persistent
          /\ status_text_persistent' = status_text_persistent
          /\ status_text_callback_handle' = None
          /\ LiveExpiry' = {}]_vars

\* the activation message of the active plugin has just expired and the bar
\* shows the persistent text the plugin set in the meantime
C17_Witness ==
    /\ pc = "running"
    /\ active_plugin # NoInstance
    /\ last_temporary.text = activated_text(active_plugin.cls)
    /\ now = C3_Expires
    /\ LiveExpiry = {}
    /\ status_text_callback_handle = None
    /\ status_text_persistent = "busy"
    /\ status_text = "busy"

\* C18: after boot exactly one clock timer is pending in every state, it is
\* never cancelled, its fire time is an exact multiple of the update interval
\* and is the time passed to the callback; each tick re-arms the next one for
\* its own scheduled time plus the interval, however late it was dispatched;
\* and no other operation touches the clock timer.
C18_OneClockTimerOnTheGrid ==
    /\ [](pc # "new" =>
            /\ Cardinality(ClockHandles) = 1
            /\ \A h \in ClockHandles :
                  /\ ~h.cancelled
                  /\ h.when % CFG_DT_UPDT_RATE = 0
                  /\ h.arg = h.when)
    /\ [][update_dt =>
              \E old \in ClockHandles, new \in ClockHandles' :
                  /\ old.when <= now
                  /\ new.when = old.when + CFG_DT_UPDT_RATE]_vars
    /\ [][(pc = "running" /\ ~update_dt) => ClockHandles' = ClockHandles]_vars

\* the second tick, due at twice the interval, ran one second late with a
\* plugin active and re-armed the third for three times the interval
C18_Witness ==
    /\ pc = "running"
    /\ active_plugin # NoInstance
    /\ dt_text.at = 2 * CFG_DT_UPDT_RATE + 1
    /\ \E h \in ClockHandles : h.when = 3 * CFG_DT_UPDT_RATE

\* C19: a clock tick under a configured format that strftime rejects does not
\* fail: it publishes the time string in the default format, it has re-armed
\* the next tick, no exception reaches the event loop and the status bar is
\* untouched; under a format strftime accepts the string is in that format.
C19_InvalidFormatFallsBack ==
    /\ [](cfg_dt_format \in Formats /\ exc = "none" /\ pc # "exited")
    /\ [][update_dt =>
              /\ dt_text' = [at |-> now,
                             fmt |-> IF cfg_dt_format \in RaisingFormats
                                     THEN DFLT_DT_FORMAT ELSE cfg_dt_format]
              /\ \E h \in ClockHandles' \ ClockHandles : ~h.cancelled
              /\ UNCHANGED <<pc, exc, status_text, status_text_persistent,
                             status_text_callback_handle>>]_vars

\* under the invalid format a tick has run: the bar shows the tick's time in
\* the default format and the next tick is pending
C19_Witness ==
    /\ pc = "running"
    /\ cfg_dt_format = INVALID_DT_FORMAT
    /\ dt_text = [at |-> now, fmt |-> DFLT_DT_FORMAT]
    /\ now >= CFG_DT_UPDT_RATE
    /\ \E h \in ClockHandles : h.when = now + CFG_DT_UPDT_RATE
    /\ exc = "none"

\* C20: in every reachable state, after successful and failing activations,
\* the active-plugin slot and the displayed body agree: whenever
\* active_plugin is set, the body is the main widget returned by that same
\* instance, never another plugin's surface and never the boot placeholder.
C20_BodyShowsActivePlugin ==
    active_plugin # NoInstance => body = get_main_widget(active_plugin)

====
